---- MODULE Spec2Model ----
(***************************************************************************)
(* Commute tracker (src/main.py): the schedule gate, the record log and   *)
(* the LastRunLog run-state sheet, as a state machine over the Google      *)
(* spreadsheet the program reads and writes.                               *)
(*                                                                         *)
(* Time is counted in minutes since Monday 00:00 local time (now_chicago   *)
(* zeroes seconds and microseconds).  A worksheet is the sequence of its   *)
(* rows, a row the sequence of its cells, every cell a string, as          *)
(* get_all_values returns them.                                            *)
(***************************************************************************)
EXTENDS Integers, Sequences, FiniteSets, TLC

VARIABLES
    clock,      \* the wall clock, minutes since Monday 00:00
    ticks,      \* how often the clock has advanced
    runs,       \* how many invocations of main have started
    faults,     \* how many store or provider calls have failed
    cfg,        \* which config.json is installed (index into ConfigFiles)
    exists,     \* the worksheets of the spreadsheet "CommuteData"
    sheets,     \* worksheet name -> its rows
    pc,         \* where the invocation stands
    caller,     \* who called: "main" the entry point, "direct" a function call
    i,          \* run_commute_tracker: index of the route being processed
    args,       \* log_route_to_sheet: its arguments
    now,        \* log_route_to_sheet: its local `now`
    routes,     \* log_route_to_sheet: what get_routes returned
    k,          \* log_route_to_sheet: index of the alternative being appended
    decision,   \* log_route_to_sheet: what the gate decided
    before,     \* the worksheets' rows when log_route_to_sheet was entered
    written,    \* outcome of the last update_last_run_time call
    result,     \* what the last call returned (or that it raised)
    failure,    \* the exception that ended the last call, "none" if none
    fetched,    \* outcome of the last get_routes call of this invocation
    attempted,  \* indices of the routes log_route_to_sheet was called for
    committed   \* history: route name -> `now` of its last Run-State write

vars == <<clock, ticks, runs, faults, cfg, exists, sheets, pc, caller, i, args, now,
          routes, k, decision, before, written, result, failure, fetched,
          attempted, committed>>

(***************************************************************************)
(* Bounds of the model.                                                    *)
(***************************************************************************)
MaxTicks == 3
MaxRuns == 2
MaxAlts == 2
MaxFaults == 1

(***************************************************************************)
(* Program constants.                                                      *)
(***************************************************************************)
DefaultInterval == 15
MinutesPerHour == 60
MinutesPerDay == 1440
Absent == -1

PyNone == "None"
Truthy(v) == v \notin {PyNone, ""}

DayNames == <<"Monday", "Tuesday", "Wednesday", "Thursday", "Friday",
              "Saturday", "Sunday">>

\* now.strftime("%A")
Weekday(t) == DayNames[((t \div MinutesPerDay) % 7) + 1]

\* now.time(), as minutes since midnight
TimeOfDay(t) == t % MinutesPerDay

Pad2(n) == IF n < 10 THEN "0" \o ToString(n) ELSE ToString(n)

\* the "%H:%M" text of a time of day
HMString(m) == Pad2(m \div MinutesPerHour) \o ":" \o Pad2(m % MinutesPerHour)

HMTable == [m \in 0..(MinutesPerDay - 1) |-> HMString(m)]

\* datetime.strptime(s, "%H:%M").time()
ParseHM(s) == CHOOSE m \in DOMAIN HMTable : HMTable[m] = s

(***************************************************************************)
(* The instants the model's clock can show: it starts on Monday 07:55 (or, *)
(* where the functions are called directly, on Tuesday 07:55) and advances *)
(* in steps of 5 minutes.                                                  *)
(***************************************************************************)
StartClocks == {7 * MinutesPerHour + 55}
DirectStartClocks == StartClocks \cup {MinutesPerDay + 7 * MinutesPerHour + 55}
Steps == {5}
Instants == {s + 5 * a : s \in DirectStartClocks, a \in 0..MaxTicks}

\* now.strftime("%Y-%m-%d %H:%M:%S")
Strftime(t) ==
    "d" \o ToString(t \div MinutesPerDay) \o " " \o HMString(TimeOfDay(t)) \o ":00"

\* timestamp.isoformat() of a timezone-aware datetime
IsoFormat(t) ==
    "d" \o ToString(t \div MinutesPerDay) \o "T" \o HMString(TimeOfDay(t))
        \o ":00-06:00"

IsoTable == [t \in Instants |-> IsoFormat(t)]

\* datetime.fromisoformat(val) succeeds (no ValueError)
IsIso(s) == \E t \in Instants : IsoTable[t] = s

\* datetime.fromisoformat(val)
FromIsoFormat(s) == CHOOSE t \in Instants : IsoTable[t] = s

Min(S) == CHOOSE x \in S : \A y \in S : x <= y
Max2(a, b) == IF a >= b THEN a ELSE b


(***************************************************************************)
(* config.json: each route is a dict; a key the file leaves out is missing *)
(* from the record's domain.                                               *)
(***************************************************************************)
HomeRoute ==
    [name |-> "Home", origin |-> "41.88,-87.63", destination |-> "42.05,-87.68",
     interval |-> 5, start |-> "08:00", end |-> "08:05"]
WorkRoute ==
    [name |-> "Work", origin |-> "42.05,-87.68", destination |-> "41.88,-87.63",
     start |-> PyNone, end |-> PyNone]
GymRoute ==
    [name |-> "Gym", origin |-> "41.88,-87.63", destination |-> "41.92,-87.65"]

ConfigFiles == << <<HomeRoute, WorkRoute>>, <<GymRoute, WorkRoute>> >>

Config == ConfigFiles[cfg]

\* d.get(key, default)
DictGet(d, key, default) == IF key \in DOMAIN d THEN d[key] ELSE default

\* route["name"].replace("/", "-")
TabName(name) == IF name = "Lake/Shore" THEN "Lake-Shore" ELSE name

LogSheet == "LastRunLog"
RouteNames == {"Home", "Work", "Gym", "Route"}
Tabs == {LogSheet} \cup {TabName(n) : n \in RouteNames}

(***************************************************************************)
(* The worksheet operations of gspread the program uses.                   *)
(***************************************************************************)
Headers ==
    <<"Timestamp", "Day", "Route", "Duration (min)", "Length (miles)",
      "Directions">>

\* all(not any(cell.strip() for cell in row) for row in existing_values)
AllBlank(values) ==
    \A r \in 1..Len(values) : \A c \in 1..Len(values[r]) : values[r][c] = ""

\* the header repair without its test for a blank worksheet: every call
\* clears the worksheet and writes the headers
EnsureHeadersAlways(values) == <<Headers>>

\* get_or_create_worksheet, its effect on the worksheet's rows: a worksheet
\* that is new, empty or blank is cleared and given the six log headers,
\* whatever its name; any other is left as it is.
EnsureHeaders(values) ==
    IF values = <<>> \/ AllBlank(values) THEN <<Headers>> ELSE values

\* ws.find(query): the row of the first cell, in row-major order, whose
\* value is the query; 0 when no cell matches (None)
Find(values, query) ==
    LET hits == {r \in 1..Len(values) :
                    \E c \in 1..Len(values[r]) : values[r][c] = query}
    IN  IF hits = {} THEN 0 ELSE Min(hits)

\* ws.update_cell(row, col, value)
UpdateCell(values, row, col, value) ==
    LET old == values[row]
        new == [c \in 1..Max2(Len(old), col) |->
                   IF c = col THEN value
                   ELSE IF c <= Len(old) THEN old[c] ELSE ""]
    IN  [values EXCEPT ![row] = new]

\* one record of ws.get_all_records(): dict(zip(keys, row)).get(key), with
\* None read as the empty string (both are falsy and equal no route name)
RecordGet(keys, row, key) ==
    LET cols == {c \in 1..Len(keys) : keys[c] = key /\ c <= Len(row)}
    IN  IF cols = {} THEN ""
        ELSE row[CHOOSE c \in cols : \A d \in cols : d <= c]

\* get_last_run_time when the sheet can be read: the LastRun of the first
\* record whose Route is the route and whose LastRun is not empty; Absent
\* when there is none or it does not parse
GetLastRunTime(values, route_name) ==
    LET hits == {r \in 2..Len(values) :
                    /\ RecordGet(values[1], values[r], "Route") = route_name
                    /\ RecordGet(values[1], values[r], "LastRun") # ""}
        val == RecordGet(values[1], values[Min(hits)], "LastRun")
    IN  IF hits = {} THEN Absent
        ELSE IF IsIso(val) THEN FromIsoFormat(val) ELSE Absent

\* update_last_run_time when no store call raises
UpdateLastRunTime(values, route_name, timestamp) ==
    LET row == Find(values, route_name)
    IN  IF row # 0
        THEN UpdateCell(values, row, 2, IsoFormat(timestamp))
        ELSE Append(values, <<route_name, IsoFormat(timestamp)>>)

(***************************************************************************)
(* The directions provider's answers and their normalisation.              *)
(***************************************************************************)
AltI90 ==
    [summary |-> "I-90", duration |-> 1800, distance |-> 16093,
     steps |-> << <<"Turn ", "<b>", "left", "</b>">>, <<"Merge">> >>]
AltUS41 ==
    [summary |-> "US-41", duration |-> 600, duration_in_traffic |-> 900,
     distance |-> 1609, steps |-> << <<"Head ", "<b>", "north", "</b>">> >>]

\* data.get("routes", []) of a 200 response: no, one or more alternatives
Alternative(j) == IF j % 2 = 1 THEN AltUS41 ELSE AltI90
Responses == {[j \in 1..n |-> Alternative(j)] : n \in 0..MaxAlts}

SecondsPerMinute == 60
CentimetresPerMile == 160934

\* round(a / b) as Python rounds a quotient that is exactly representable
RoundDiv(a, b) ==
    LET q == a \div b
        r == a % b
    IN  IF 2 * r > b \/ (2 * r = b /\ q % 2 = 1) THEN q + 1 ELSE q

\* a number with one decimal, as the cell shows it
TenthsText(n) == ToString(n \div 10) \o "." \o ToString(n % 10)

\* the duration taken from leg["duration"] whether or not the provider gave
\* a duration in traffic
DurationTenthsBase(alt) == RoundDiv(10 * alt.duration, SecondsPerMinute)

\* round(leg.get("duration_in_traffic", leg["duration"])["value"] / 60, 1),
\* in tenths of a minute
DurationTenths(alt) ==
    RoundDiv(10 * DictGet(alt, "duration_in_traffic", alt.duration),
             SecondsPerMinute)

\* the conversion cut off after the first decimal instead of rounded
MilesTenthsTruncated(cm) == (10 * cm) \div CentimetresPerMile

\* round(metres / 1609.34, 1), in tenths of a mile, of a distance given in
\* centimetres (1609.34 m are 160934 cm)
MilesTenths(cm) == RoundDiv(10 * cm, CentimetresPerMile)

\* round(leg["distance"]["value"] / 1609.34, 1), in tenths of a mile; the
\* provider gives whole metres
DistanceTenths(alt) == MilesTenths(100 * alt.distance)

RECURSIVE StripBold(_)
\* step["html_instructions"].replace("<b>", "").replace("</b>", "")
StripBold(tokens) ==
    IF tokens = <<>> THEN ""
    ELSE (IF Head(tokens) \in {"<b>", "</b>"} THEN "" ELSE Head(tokens))
            \o StripBold(Tail(tokens))

RECURSIVE JoinSteps(_)
\* " -> ".join(...) over the steps, in order
JoinSteps(steps) ==
    IF steps = <<>> THEN ""
    ELSE IF Len(steps) = 1 THEN StripBold(steps[1])
    ELSE StripBold(steps[1]) \o " -> " \o JoinSteps(Tail(steps))

\* the row log_route_to_sheet appends for one alternative
RecordRow(alt, t) ==
    <<Strftime(t), Weekday(t), DictGet(alt, "summary", "N/A"),
      TenthsText(DurationTenths(alt)), TenthsText(DistanceTenths(alt)),
      JoinSteps(alt.steps)>>

(***************************************************************************)
(* The schedule gate of log_route_to_sheet.                                *)
(***************************************************************************)
\* the day test turned around: `in` for `not in`
SkipDayInverted(t, days) == days # {} /\ Weekday(t) \in days

\* days and now.strftime("%A") not in days
SkipDay(t, days) == days # {} /\ Weekday(t) \notin days

\* the window with its bounds excluded: start_t < t < end_t
SkipWindowExclusive(t, start, end) ==
    /\ Truthy(start)
    /\ Truthy(end)
    /\ ~(ParseHM(start) < TimeOfDay(t) /\ TimeOfDay(t) < ParseHM(end))

\* start and end and not (start_t <= t <= end_t)
SkipWindow(t, start, end) ==
    /\ Truthy(start)
    /\ Truthy(end)
    /\ ~(ParseHM(start) <= TimeOfDay(t) /\ TimeOfDay(t) <= ParseHM(end))

\* the cooldown with `<=` for `<`
SkipIntervalInclusive(t, last, interval) ==
    last # Absent /\ t - last <= interval

\* last_dt and (now - last_dt).total_seconds() / 60.0 < float(interval)
SkipInterval(t, last, interval) == last # Absent /\ t - last < interval

\* the checks in another order: the interval first, then the day, then the
\* window
DecisionIntervalFirst(t, days, start, end, last, interval) ==
    IF SkipInterval(t, last, interval) THEN "skip-interval"
    ELSE IF SkipDay(t, days) THEN "skip-day"
    ELSE IF SkipWindow(t, start, end) THEN "skip-window"
    ELSE "run"

\* the gate: the first check that fails decides
Decision(t, days, start, end, last, interval) ==
    IF SkipDay(t, days) THEN "skip-day"
    ELSE IF SkipWindow(t, start, end) THEN "skip-window"
    ELSE IF SkipInterval(t, last, interval) THEN "skip-interval"
    ELSE "run"


(***************************************************************************)
(* The state machine.                                                      *)
(***************************************************************************)
\* the header the run-state table has when the operator set it up by hand,
\* with the two keys get_last_run_time reads
RunStateHeaders == <<"Route", "LastRun">>

\* the run-state tables an operator may have left: the header alone, or with
\* an entry whose LastRun cell is no ISO timestamp
HandMadeLogs ==
    {<<RunStateHeaders>>, <<RunStateHeaders, <<"Work", "yesterday">> >>}

NoArgs ==
    [route_name |-> "", tab |-> "", interval |-> 0, days |-> {},
     start |-> PyNone, end |-> PyNone]

NoSheets == [t \in Tabs |-> <<>>]

\* no call is in progress and none has left its outcome behind
Quiet ==
    /\ pc = "idle"
    /\ caller = "none"
    /\ i = 0
    /\ args = NoArgs
    /\ now = Absent
    /\ routes = <<>>
    /\ k = 0
    /\ decision = "none"
    /\ before = NoSheets
    /\ written = "none"
    /\ result = "none"
    /\ failure = "none"
    /\ fetched = "none"
    /\ attempted = {}

Idle ==
    /\ ticks = 0
    /\ runs = 0
    /\ faults = 0
    /\ Quiet
    /\ committed = [n \in RouteNames |-> Absent]

\* The spreadsheet exists; its LastRunLog worksheet is either not there yet
\* (the program will create it) or was set up by hand with RunStateHeaders.
\* The hand-made table may hold an entry that does not parse.
Init ==
    /\ clock \in StartClocks
    /\ cfg \in DOMAIN ConfigFiles
    /\ \/ exists = {} /\ sheets = NoSheets
       \/ /\ exists = {LogSheet}
          /\ \E log \in HandMadeLogs :
                sheets = [NoSheets EXCEPT ![LogSheet] = log]
    /\ Idle

\* the clock advances between invocations
Tick ==
    /\ pc = "idle"
    /\ ticks < MaxTicks
    /\ \E d \in Steps : clock' = clock + d
    /\ ticks' = ticks + 1
    /\ UNCHANGED <<runs, faults, cfg, exists, sheets, pc, caller, i, args, now,
                   routes, k,
                   decision, before, written, result, failure, fetched,
                   attempted, committed>>

\* a store or provider call fails
Fault == faults < MaxFaults /\ faults' = faults + 1
NoFault == faults' = faults

\* a new call of main (or of a function) starts
Enter(who) ==
    /\ pc = "idle"
    /\ runs < MaxRuns
    /\ runs' = runs + 1
    /\ caller' = who
    /\ UNCHANGED <<clock, ticks, cfg, now, decision, written, fetched, routes,
                   k, before, committed>>

\* get_or_create_worksheet(sh, name) when no store call raises
Ensure(name) ==
    /\ exists' = exists \cup {name}
    /\ sheets' = [sheets EXCEPT ![name] = EnsureHeaders(@)]

\* get_or_create_worksheet(sh, name) when a store call raises: the worksheet
\* may already have been added, without headers
EnsureRaises(name) ==
    /\ exists' \in {exists, exists \cup {name}}
    /\ sheets' = sheets

\* main without its `except Exception`: the exception leaves main as well
RaiseUncaught(kind) ==
    /\ pc' = "done"
    /\ failure' = kind
    /\ result' = "raised"

\* an exception leaves the call: main catches it (500); a direct caller
\* sees it raised
Raise(kind) ==
    /\ pc' = "done"
    /\ failure' = kind
    /\ result' = IF caller = "main" THEN "500" ELSE "raised"

\* log_route_to_sheet returns
ReturnFromLog ==
    /\ failure' = failure
    /\ IF caller = "main"
       THEN pc' = "loop" /\ i' = i + 1 /\ result' = result
       ELSE pc' = "done" /\ i' = i /\ result' = "returned"

\* main, request.method neither missing nor GET
MainReject ==
    /\ Enter("main")
    /\ NoFault
    /\ pc' = "done"
    /\ result' = "405"
    /\ UNCHANGED <<exists, sheets, i, args, failure, attempted>>

\* main -> run_commute_tracker: the client, the spreadsheet, the LastRunLog
\* worksheet and config.json, up to the loop over the routes
MainStart ==
    /\ Enter("main")
    /\ NoFault
    /\ pc' = "loop"
    /\ i' = 1
    /\ result' = "pending"
    /\ Ensure(LogSheet)
    /\ UNCHANGED <<args, failure, attempted>>

\* the same, when acquiring the store or loading the configuration raises
MainSetupFails ==
    /\ Enter("main")
    /\ Fault
    /\ pc' = "done"
    /\ result' = "500"
    /\ failure' = "setup"
    /\ \/ UNCHANGED <<exists, sheets>>
       \/ Ensure(LogSheet)
    /\ UNCHANGED <<i, args, attempted>>

\* run_commute_tracker, one pass of the loop up to the call of
\* log_route_to_sheet: the route's worksheet, then the arguments (route["start"]
\* and route["end"] raise KeyError when the key is missing).  The locals of
\* the previous call of log_route_to_sheet are gone.
RouteOpen ==
    /\ pc = "loop"
    /\ i <= Len(Config)
    /\ LET route == Config[i]
           tab == TabName(route.name)
       IN  \/ /\ Ensure(tab)
              /\ NoFault
              /\ {"start", "end"} \subseteq DOMAIN route
              /\ args' = [route_name |-> route.name, tab |-> tab,
                          interval |-> DictGet(route, "interval", DefaultInterval),
                          days |-> {},
                          start |-> route.start, end |-> route.end]
              /\ pc' = "call"
              /\ attempted' = attempted \cup {i}
              /\ UNCHANGED <<result, failure>>
           \/ /\ Ensure(tab)
              /\ NoFault
              /\ ~({"start", "end"} \subseteq DOMAIN route)
              /\ Raise("KeyError")
              /\ args' = NoArgs
              /\ UNCHANGED attempted
           \/ /\ EnsureRaises(tab)
              /\ Fault
              /\ Raise("store")
              /\ args' = NoArgs
              /\ UNCHANGED attempted
    /\ now' = Absent
    /\ routes' = <<>>
    /\ k' = 0
    /\ decision' = "none"
    /\ before' = NoSheets
    /\ written' = "none"
    /\ fetched' = "none"
    /\ UNCHANGED <<clock, ticks, runs, cfg, caller, i, committed>>

\* run_commute_tracker returns after the last route; main returns 200 to a
\* GET request and None to the local runner (request is None)
LoopDone ==
    /\ pc = "loop"
    /\ i > Len(Config)
    /\ pc' = "done"
    /\ \E request \in {"GET", "None"} :
          result' = IF request = "GET" THEN "200" ELSE "None"
    /\ UNCHANGED <<clock, ticks, runs, faults, cfg, exists, sheets, caller, i,
                   args, now, routes, k, decision, before, written, failure,
                   fetched, attempted, committed>>

\* the call has returned and its outcome has been seen
Finish ==
    /\ pc = "done"
    /\ pc' = "idle"
    /\ caller' = "none"
    /\ i' = 0
    /\ args' = NoArgs
    /\ now' = Absent
    /\ routes' = <<>>
    /\ k' = 0
    /\ decision' = "none"
    /\ before' = NoSheets
    /\ written' = "none"
    /\ result' = "none"
    /\ failure' = "none"
    /\ fetched' = "none"
    /\ attempted' = {}
    /\ UNCHANGED <<clock, ticks, runs, faults, cfg, exists, sheets,
                   committed>>

\* Gate with get_last_run_time lacking its `except Exception`: a failure to
\* read the run-state table leaves log_route_to_sheet as an exception
GateReadRaises ==
    /\ pc = "call"
    /\ now' = clock
    /\ before' = sheets
    /\ \/ /\ NoFault
          /\ decision' = Decision(clock, args.days, args.start, args.end,
                                  GetLastRunTime(sheets[LogSheet], args.route_name),
                                  args.interval)
          /\ IF decision' = "run"
             THEN /\ pc' = "fetch"
                  /\ UNCHANGED <<i, result, failure>>
             ELSE ReturnFromLog
       \/ /\ ~SkipDay(clock, args.days)
          /\ ~SkipWindow(clock, args.start, args.end)
          /\ Fault
          /\ decision' = "none"
          /\ Raise("read")
          /\ UNCHANGED i
    /\ UNCHANGED <<clock, ticks, runs, cfg, exists, sheets, caller, args, routes,
                   k, written, fetched, attempted, committed>>

\* log_route_to_sheet, from its entry to the gate's decision.  The run-state
\* table is read only when the day and the window let the route through;
\* when reading it raises, get_last_run_time catches that and returns None.
Gate ==
    /\ pc = "call"
    /\ now' = clock
    /\ before' = sheets
    /\ \E last \in {Absent, GetLastRunTime(sheets[LogSheet], args.route_name)} :
          /\ \/ /\ last = GetLastRunTime(sheets[LogSheet], args.route_name)
                /\ NoFault
             \/ /\ ~SkipDay(clock, args.days)
                /\ ~SkipWindow(clock, args.start, args.end)
                /\ last = Absent
                /\ Fault
          /\ decision' = Decision(clock, args.days, args.start, args.end, last,
                                  args.interval)
          /\ IF decision' = "run"
             THEN /\ pc' = "fetch"
                  /\ UNCHANGED <<i, result, failure>>
             ELSE ReturnFromLog
    /\ UNCHANGED <<clock, ticks, runs, cfg, exists, sheets, caller, args, routes,
                   k, written, fetched, attempted, committed>>

\* Fetch without the `if not routes: return`: an empty answer goes on to the
\* (empty) loop and to update_last_run_time
FetchIgnoringEmpty ==
    /\ pc = "fetch"
    /\ \/ /\ fetched' = "error"
          /\ Fault
          /\ Raise("provider")
          /\ UNCHANGED <<i, routes, k>>
       \/ /\ fetched' = "non200"
          /\ Fault
          /\ pc' = "update"
          /\ UNCHANGED <<i, result, failure, routes, k>>
       \/ /\ fetched' = "ok"
          /\ NoFault
          /\ \E rs \in Responses :
                /\ routes' = rs
                /\ IF rs = <<>>
                   THEN pc' = "update" /\ k' = k
                   ELSE pc' = "append" /\ k' = 1
                /\ UNCHANGED <<i, result, failure>>
    /\ UNCHANGED <<clock, ticks, runs, cfg, exists, sheets, caller, args, now,
                   decision, before, written, attempted, committed>>

\* get_routes and the check of its result: requests.get may raise (nothing
\* in get_routes catches it); a status other than 200 gives []; a 200 gives
\* the alternatives, and an empty list makes log_route_to_sheet return
Fetch ==
    /\ pc = "fetch"
    /\ \/ /\ fetched' = "error"
          /\ Fault
          /\ Raise("provider")
          /\ UNCHANGED <<i, routes, k>>
       \/ /\ fetched' = "non200"
          /\ Fault
          /\ ReturnFromLog
          /\ UNCHANGED <<routes, k>>
       \/ /\ fetched' = "ok"
          /\ NoFault
          /\ \E rs \in Responses :
                /\ routes' = rs
                /\ IF rs = <<>>
                   THEN ReturnFromLog /\ k' = k
                   ELSE /\ pc' = "append"
                        /\ k' = 1
                        /\ UNCHANGED <<i, result, failure>>
    /\ UNCHANGED <<clock, ticks, runs, cfg, exists, sheets, caller, args, now,
                   decision, before, written, attempted, committed>>

\* AppendRow with update_last_run_time called inside the loop, after each row
AppendRowCommitting ==
    /\ pc = "append"
    /\ \/ /\ NoFault
          /\ sheets' = [sheets EXCEPT
                           ![args.tab] = Append(@, RecordRow(routes[k], now)),
                           ![LogSheet] = UpdateLastRunTime(@, args.route_name, now)]
          /\ IF k = Len(routes)
             THEN pc' = "update" /\ k' = k
             ELSE pc' = "append" /\ k' = k + 1
          /\ UNCHANGED <<i, result, failure, routes>>
       \/ /\ Fault
          /\ Raise("append")
          /\ UNCHANGED <<sheets, i, routes, k>>
    /\ UNCHANGED <<clock, ticks, runs, cfg, exists, caller, args, now, decision,
                   before, written, fetched, attempted, committed>>

\* one pass of the loop over the alternatives: ws.append_row
AppendRow ==
    /\ pc = "append"
    /\ \/ /\ NoFault
          /\ sheets' = [sheets EXCEPT
                           ![args.tab] = Append(@, RecordRow(routes[k], now))]
          /\ IF k = Len(routes)
             THEN pc' = "update" /\ k' = k
             ELSE pc' = "append" /\ k' = k + 1
          /\ UNCHANGED <<i, result, failure, routes>>
       \/ /\ Fault
          /\ Raise("append")
          /\ UNCHANGED <<sheets, i, routes, k>>
    /\ UNCHANGED <<clock, ticks, runs, cfg, exists, caller, args, now, decision,
                   before, written, fetched, attempted, committed>>

\* update_last_run_time without its `except Exception`: a failure of the
\* store leaves it, and log_route_to_sheet, as an exception
UpdateLastRunRaising ==
    /\ pc = "update"
    /\ \/ /\ NoFault
          /\ sheets' = [sheets EXCEPT
                           ![LogSheet] = UpdateLastRunTime(@, args.route_name, now)]
          /\ written' = "written"
          /\ committed' = [committed EXCEPT ![args.route_name] = now]
          /\ ReturnFromLog
       \/ /\ Fault
          /\ written' = "raised"
          /\ Raise("update")
          /\ UNCHANGED <<sheets, committed, i>>
    /\ UNCHANGED <<clock, ticks, runs, cfg, exists, caller, args, now, routes, k,
                   decision, before, fetched, attempted>>

\* update_last_run_time(ws_log, route_name, now); an exception of the store
\* is caught inside it
UpdateLastRun ==
    /\ pc = "update"
    /\ \/ /\ NoFault
          /\ sheets' = [sheets EXCEPT
                           ![LogSheet] = UpdateLastRunTime(@, args.route_name, now)]
          /\ written' = "written"
          /\ committed' = [committed EXCEPT ![args.route_name] = now]
       \/ /\ Fault
          /\ written' = "swallowed"
          /\ UNCHANGED <<sheets, committed>>
    /\ ReturnFromLog
    /\ UNCHANGED <<clock, ticks, runs, cfg, exists, caller, args, now, routes, k,
                   decision, before, fetched, attempted>>

Next ==
    \/ Tick
    \/ MainReject
    \/ MainStart
    \/ MainSetupFails
    \/ RouteOpen
    \/ LoopDone
    \/ Finish
    \/ Gate
    \/ Fetch
    \/ AppendRow
    \/ UpdateLastRun

Spec == Init /\ [][Next]_vars


(***************************************************************************)
(* The functions called directly: log_route_to_sheet with its optional     *)
(* `days` argument, which run_commute_tracker never passes, and            *)
(* update_last_run_time, on worksheets get_or_create_worksheet has opened. *)
(***************************************************************************)
DirectArgs ==
    {[route_name |-> "Work", tab |-> "Work", interval |-> DefaultInterval,
      days |-> {}, start |-> PyNone, end |-> PyNone],
     [route_name |-> "Home", tab |-> "Home", interval |-> 5,
      days |-> {"Monday"}, start |-> "08:00", end |-> "08:05"],
     [route_name |-> "Home", tab |-> "Home", interval |-> 5,
      days |-> {"Tuesday", "Wednesday"}, start |-> "08:00", end |-> "08:05"],
     [route_name |-> "Work", tab |-> "Work", interval |-> DefaultInterval,
      days |-> {"Tuesday"}, start |-> "08:00", end |-> PyNone],
     [route_name |-> "Route", tab |-> "Route", interval |-> DefaultInterval,
      days |-> {}, start |-> PyNone, end |-> PyNone]}

UpsertNames == {"Home", "Route"}

InitDirect ==
    /\ clock \in DirectStartClocks
    /\ cfg = 1
    /\ exists = Tabs
    /\ \E log \in {<<Headers>>, <<RunStateHeaders>>} :
          sheets = [t \in Tabs |-> IF t = LogSheet THEN log ELSE <<Headers>>]
    /\ Idle

\* log_route_to_sheet(ws, ws_log, route_name, origin, destination, interval,
\*                    days, start, end) is called
DirectLog ==
    /\ Enter("direct")
    /\ NoFault
    /\ \E a \in DirectArgs : args' = a
    /\ pc' = "call"
    /\ UNCHANGED <<exists, sheets, i, result, failure, attempted>>

\* update_last_run_time(ws_log, route_name, timestamp) is called
DirectUpdate ==
    /\ pc = "idle"
    /\ runs < MaxRuns
    /\ runs' = runs + 1
    /\ caller' = "direct"
    /\ \E n \in UpsertNames : args' = [NoArgs EXCEPT !.route_name = n]
    /\ now' = clock
    /\ before' = sheets
    /\ pc' = "update"
    /\ NoFault
    /\ UNCHANGED <<clock, ticks, cfg, exists, sheets, i, routes, k, decision,
                   written, result, failure, fetched, attempted, committed>>

NextDirect ==
    \/ Tick
    \/ DirectLog
    \/ DirectUpdate
    \/ Gate
    \/ Fetch
    \/ AppendRow
    \/ UpdateLastRun
    \/ Finish

SpecDirect == InitDirect /\ [][NextDirect]_vars


(***************************************************************************)
(* What the claims speak of.                                               *)
(***************************************************************************)
\* the LastRunLog worksheet carries the headers get_or_create_worksheet gave it
ProgramCreatedLog ==
    /\ sheets[LogSheet] # <<>>
    /\ sheets[LogSheet][1] = Headers

\* the rows of the run-state table that are entries of a route: the rows
\* below the header row whose first cell is the route's name
Entries(values, route_name) ==
    {r \in 2..Len(values) : values[r][1] = route_name}

\* the rows the current call has appended to its route's worksheet
Appended ==
    SubSeq(sheets[args.tab], Len(before[args.tab]) + 1, Len(sheets[args.tab]))

\* the gate has let the current call through
PastGate == pc \in {"fetch", "append", "update"}

\* C1: after an invocation has logged route R at t and written its
\* Run-State, a later invocation at t + d with d < interval does not query
\* the provider for R (on the LastRunLog worksheet the program created, with
\* every store and provider call succeeding).
C1_CooldownAcrossInvocations ==
    (/\ ProgramCreatedLog
     /\ faults = 0
     /\ caller = "main"
     /\ PastGate
     /\ committed[args.route_name] # Absent)
        => now - committed[args.route_name] >= args.interval

\* C2: the Run-State is written only after every record of the run has been
\* appended, and with the run's `now`; when an append raises, after zero or
\* more rows, the run-state worksheet is as it was when the call began.
C2_CommitAfterAppends ==
    /\ pc \in {"fetch", "append"} => sheets[LogSheet] = before[LogSheet]
    /\ pc = "update" =>
          /\ sheets[LogSheet] = before[LogSheet]
          /\ Len(Appended) = Len(routes)
    /\ failure = "append" =>
          /\ sheets[LogSheet] = before[LogSheet]
          /\ Len(Appended) < Len(routes)
    /\ written = "written" =>
          /\ Len(Appended) = Len(routes)
          /\ decision = "run"
          /\ \E r \in 1..Len(sheets[LogSheet]) :
                /\ sheets[LogSheet][r][2] = IsoFormat(now)
                /\ \A q \in (1..Len(sheets[LogSheet])) \ {r} :
                      /\ q <= Len(before[LogSheet])
                      /\ sheets[LogSheet][q] = before[LogSheet][q]

\* C2's case: an append raised after a row had been written, for a route
\* that had a Run-State entry from an earlier run
C2_Witness ==
    /\ failure = "append"
    /\ Len(Appended) >= 1
    /\ Entries(before[LogSheet], args.route_name) # {}

\* C3: a failure while a route's record row is appended does not keep the
\* routes after it from being attempted.
C3_RoutesIsolated ==
    (pc = "done" /\ caller = "main" /\ failure = "append")
        => attempted = DOMAIN Config

\* C4: get_routes fails closed on a non-2xx response and on a network error
\* alike: it returns no alternatives and raises nothing, nothing is written,
\* and the invocation goes on with the next route.
C4_ProviderFailsClosed ==
    (caller = "main" /\ fetched \in {"non200", "error"})
        => /\ failure = "none"
           /\ result # "500"
           /\ routes = <<>>
           /\ sheets = before

\* C5: a run whose provider answer is empty appends nothing and leaves the
\* Run-State alone; a run with n >= 1 alternatives whose writes all succeed
\* appends exactly n rows, one per alternative in the provider's order, each
\* with the run's `now`, and then holds `now` as the route's Run-State.
C5_RowsPerAlternative ==
    /\ (fetched = "ok" /\ routes = <<>>) =>
          sheets = before /\ written = "none" /\ ~PastGate
    /\ pc = "append" =>
          /\ Len(Appended) = k - 1
          /\ sheets[LogSheet] = before[LogSheet]
    /\ (pc \in {"append", "update"} \/ written # "none") =>
          /\ SubSeq(sheets[args.tab], 1, Len(before[args.tab])) = before[args.tab]
          /\ \A j \in 1..Len(Appended) :
                /\ Appended[j][1] = Strftime(now)
                /\ Appended[j][2] = Weekday(now)
                /\ Appended[j][3] = routes[j].summary
                /\ Len(Appended[j]) = Len(Headers)
    /\ (pc = "update" \/ written # "none") => Len(Appended) = Len(routes)
    /\ written = "written" =>
          \E r \in 1..Len(sheets[LogSheet]) :
              /\ sheets[LogSheet][r][1] = args.route_name
              /\ sheets[LogSheet][r][2] = IsoFormat(now)

\* C5's case: two alternatives were logged, in the provider's order, and the
\* Run-State was written after them
C5_Witness ==
    /\ written = "written"
    /\ Len(routes) = 2
    /\ Appended[1][3] = "US-41"
    /\ Appended[2][3] = "I-90"
    /\ caller = "main"


\* C6: after update_last_run_time has been called for a route, the first
\* time and every later time, the run-state table holds exactly one entry
\* for that route, and its value is the timestamp of the latest call.
C6_UpsertOneEntry ==
    (pc = "done" /\ written = "written")
        => \E r \in Entries(sheets[LogSheet], args.route_name) :
              /\ Entries(sheets[LogSheet], args.route_name) = {r}
              /\ sheets[LogSheet][r][2] = IsoFormat(now)

\* the weekday of the call's `now` is not among its non-empty `days`
DayExcluded == args.days # {} /\ Weekday(now) \notin args.days

\* now.time() lies in [start, end], both bounds included
InsideWindow ==
    /\ ParseHM(args.start) <= TimeOfDay(now)
    /\ TimeOfDay(now) <= ParseHM(args.end)

\* the call ended at the gate: no directions request, no row, no Run-State write
Skipped ==
    /\ ~PastGate
    /\ fetched = "none"
    /\ written = "none"
    /\ sheets = before

\* C7: a call whose `now` falls on a weekday outside its non-empty `days` is
\* skipped for the day, whatever its window, its interval and its last run.
C7_SkipDay ==
    (decision # "none" /\ DayExcluded) => (decision = "skip-day" /\ Skipped)

\* C7's case: skipped for the day although the time of day is inside the window
C7_Witness ==
    /\ decision = "skip-day"
    /\ pc = "done"
    /\ Truthy(args.start)
    /\ Truthy(args.end)
    /\ InsideWindow

\* C8: with start and end both set (and the day allowed), the call is skipped
\* as outside the window exactly when now.time() < start or now.time() > end;
\* at start and at end it is inside.
C8_WindowInclusive ==
    (decision # "none" /\ Truthy(args.start) /\ Truthy(args.end) /\ ~DayExcluded)
        => /\ decision = "skip-window" <=>
                 \/ TimeOfDay(now) < ParseHM(args.start)
                 \/ TimeOfDay(now) > ParseHM(args.end)
           /\ decision = "skip-window" => Skipped

\* C8's case: at 08:05, the end of the window 08:00-08:05, the route runs
C8_Witness ==
    /\ decision = "run"
    /\ args.start = "08:00"
    /\ args.end = "08:05"
    /\ TimeOfDay(now) = 8 * MinutesPerHour + 5

\* C9: on an allowed weekday, inside the window (or with no window), with no
\* earlier Run-State write for the route or with the last one at least
\* `interval` minutes ago, the gate decides `run` and the provider is queried.
C9_GateRuns ==
    (/\ decision # "none"
     /\ ~DayExcluded
     /\ (Truthy(args.start) /\ Truthy(args.end)) => InsideWindow
     /\ \/ committed[args.route_name] = Absent
        \/ now - committed[args.route_name] >= args.interval)
        => /\ decision = "run"
           /\ pc = "fetch" \/ fetched # "none"

\* C9's case: the last run, read back from the table, lies exactly `interval`
\* minutes before `now`, which is inside the window
C9_Witness ==
    /\ decision = "run"
    /\ committed[args.route_name] # Absent
    /\ now - committed[args.route_name] = args.interval
    /\ GetLastRunTime(before[LogSheet], args.route_name)
          = committed[args.route_name]
    /\ Truthy(args.start)
    /\ Truthy(args.end)
    /\ InsideWindow

\* C10: a route whose configuration supplies no start and no end is
\* processed without a time-of-day restriction: when every store and provider
\* call succeeds, an invocation calls log_route_to_sheet for it.
C10_NoWindowKeysRuns ==
    (pc = "done" /\ caller = "main" /\ faults = 0 /\ result # "405")
        => \A j \in DOMAIN Config :
              ~({"start", "end"} \subseteq DOMAIN Config[j]) => j \in attempted

\* the LastRun cell of the route's first entry in a run-state table is there
\* and is no ISO timestamp
Unparsable(values, route_name) ==
    \E r \in 2..Len(values) :
        /\ RecordGet(values[1], values[r], "Route") = route_name
        /\ RecordGet(values[1], values[r], "LastRun") # ""
        /\ ~IsIso(RecordGet(values[1], values[r], "LastRun"))
        /\ \A q \in 2..(r - 1) :
              \/ RecordGet(values[1], values[q], "Route") # route_name
              \/ RecordGet(values[1], values[q], "LastRun") = ""

\* C11: when reading the run-state table raises, or the route's LastRun does
\* not parse, get_last_run_time returns None and raises nothing: the gate,
\* day and window allowing, decides `run` as for a route that never ran.
C11_ReadFailureNotFatal ==
    [][(/\ pc = "call"
        /\ pc' # "call"
        /\ ~SkipDay(clock, args.days)
        /\ ~SkipWindow(clock, args.start, args.end)
        /\ \/ faults' > faults
           \/ Unparsable(sheets[LogSheet], args.route_name))
          => /\ decision' = "run"
             /\ pc' = "fetch"
             /\ failure' = "none"
             /\ result' \notin {"500", "raised"}
             /\ sheets' = sheets]_vars

\* C11's case: the table holds a last run of the route less than `interval`
\* minutes old, reading it raised, and the gate let the route through
C11_Witness ==
    /\ pc = "fetch"
    /\ decision = "run"
    /\ GetLastRunTime(before[LogSheet], args.route_name) # Absent
    /\ now - GetLastRunTime(before[LogSheet], args.route_name) < args.interval

\* a worksheet's rows are still there, unchanged and in place
IsPrefix(old, new) ==
    /\ Len(old) <= Len(new)
    /\ \A r \in 1..Len(old) : new[r] = old[r]

\* C12: the records are append-only: no step of the program, the header
\* repair of get_or_create_worksheet included, changes or removes a row of a
\* route's worksheet; rows are only added after the ones that are there.
C12_RecordsAppendOnly ==
    [][\A t \in Tabs \ {LogSheet} : IsPrefix(sheets[t], sheets'[t])]_vars

\* C12's case: a later invocation has opened a route's worksheet that held
\* records (the header repair has run on it) and has appended after them
C12_Witness ==
    /\ caller = "main"
    /\ pc \in {"append", "update"}
    /\ Len(before[args.tab]) >= 2
    /\ Len(sheets[args.tab]) > Len(before[args.tab])
    /\ IsPrefix(before[args.tab], sheets[args.tab])

\* C13: main answers a GET request by running the tracker over every route
\* and returning 200 (None to the local runner, whose request is None); it
\* answers any other method with 405 without running the tracker or touching
\* the store; an exception that leaves run_commute_tracker is caught and
\* returned as 500, never raised again.
C13_EntryPointOutcomes ==
    [][(pc # "done" /\ pc' = "done" /\ caller' = "main")
          => /\ result' \in {"200", "None", "405", "500"}
             /\ result' \in {"200", "None"} =>
                   /\ failure' = "none"
                   /\ attempted' = DOMAIN Config
             /\ result' = "405" =>
                   /\ pc = "idle"
                   /\ sheets' = sheets
                   /\ exists' = exists
                   /\ attempted' = {}
                   /\ fetched' = "none"
                   /\ failure' = "none"
             /\ result' = "500" <=> failure' # "none"]_vars

\* C13's case: opening a route's worksheet raised inside run_commute_tracker
\* and main returned 500
C13_Witness ==
    /\ pc = "done"
    /\ caller = "main"
    /\ failure = "store"
    /\ result = "500"

\* the current call has appended rows, or has finished appending them
HasAppended == pc \in {"append", "update"} \/ written # "none"

\* C14: the duration cell of every appended row is the first leg's
\* duration_in_traffic when the alternative has one and its duration
\* otherwise, as seconds / 60 with one decimal: 600 s with 900 s in traffic
\* gives 15.0, 1800 s without a traffic value gives 30.0.
C14_DurationSource ==
    HasAppended =>
        \A j \in 1..Len(Appended) :
            LET alt == routes[j]
                seconds == IF "duration_in_traffic" \in DOMAIN alt
                           THEN alt.duration_in_traffic
                           ELSE alt.duration
            IN  /\ Appended[j][4] = TenthsText(RoundDiv(10 * seconds, 60))
                /\ (alt.duration = 600 /\ seconds = 900) => Appended[j][4] = "15.0"
                /\ (alt.duration = 1800 /\ seconds = 1800) => Appended[j][4] = "30.0"

\* C14's case: one row from an alternative with a duration in traffic and one
\* from an alternative without have been appended
C14_Witness ==
    /\ pc = "update"
    /\ Len(Appended) = 2
    /\ "duration_in_traffic" \in DOMAIN routes[1]
    /\ "duration_in_traffic" \notin DOMAIN routes[2]
    /\ Appended[1][4] = "15.0"
    /\ Appended[2][4] = "30.0"

\* distances in centimetres: every 20 m up to 4 km, and the two of the claim
DistanceSamples == {2000 * c : c \in 0..200} \cup {160934, 1609340}

MilesMonotone ==
    \A a \in DistanceSamples : \A b \in DistanceSamples :
        a <= b => MilesTenths(a) <= MilesTenths(b)

\* C15: the length cell is metres / 1609.34 with one decimal; the conversion
\* never decreases when the distance grows, gives 1.0 for 1609.34 m and 10.0
\* for 16093.4 m.
C15_DistanceConversion ==
    /\ MilesTenths(160934) = 10
    /\ MilesTenths(1609340) = 100
    /\ MilesMonotone
    /\ HasAppended =>
          \A j \in 1..Len(Appended) :
              /\ 2 * CentimetresPerMile * DistanceTenths(routes[j])
                    >= 2000 * routes[j].distance - CentimetresPerMile
              /\ 2 * CentimetresPerMile * DistanceTenths(routes[j])
                    <= 2000 * routes[j].distance + CentimetresPerMile
              /\ Appended[j][5] = TenthsText(DistanceTenths(routes[j]))
              /\ routes[j].distance = 1609 => Appended[j][5] = "1.0"
              /\ routes[j].distance = 16093 => Appended[j][5] = "10.0"

\* C15's case: rows for 1609 m and for 16093 m have been appended
C15_Witness ==
    /\ pc = "update"
    /\ Len(Appended) = 2
    /\ routes[1].distance = 1609
    /\ routes[2].distance = 16093
    /\ Appended[1][5] = "1.0"
    /\ Appended[2][5] = "10.0"

\* C16: on the LastRunLog worksheet as get_or_create_worksheet sets it up,
\* once update_last_run_time(ws_log, R, t) has completed without an error,
\* get_last_run_time(ws_log, R) returns t.
C16_RunStateRoundTrip ==
    (/\ pc = "done"
     /\ written = "written"
     /\ before[LogSheet] # <<>>
     /\ before[LogSheet][1] = Headers)
        => GetLastRunTime(sheets[LogSheet], args.route_name) = now

\* C17: over invocations whose store and provider calls all succeed, a
\* directions request that returned alternatives for a route comes at least
\* `interval` minutes after the previous one for that route (which, its
\* writes succeeding, wrote the Run-State), and at a time inside the window.
C17_NoRedundantQueries ==
    (/\ caller = "main"
     /\ faults = 0
     /\ pc \in {"append", "update"})
        => /\ \/ committed[args.route_name] = Absent
              \/ now - committed[args.route_name] >= args.interval
           /\ (Truthy(args.start) /\ Truthy(args.end)) => InsideWindow

\* a call of log_route_to_sheet is in progress or has just returned
InLog == args.tab # ""

\* C18: the directions provider is asked only after the day check, the
\* window check and the interval check have passed, in that order (a check
\* decides only when the ones before it passed); a call that ends in a skip
\* has asked the provider nothing, appended no row and written no Run-State.
C18_GateShortCircuits ==
    /\ (InLog /\ (PastGate \/ fetched # "none")) =>
          /\ decision = "run"
          /\ ~DayExcluded
          /\ (Truthy(args.start) /\ Truthy(args.end)) => InsideWindow
          /\ faults = 0 =>
                ~SkipInterval(now,
                              GetLastRunTime(before[LogSheet], args.route_name),
                              args.interval)
    /\ decision = "skip-window" => ~DayExcluded
    /\ decision = "skip-interval" =>
          /\ ~DayExcluded
          /\ (Truthy(args.start) /\ Truthy(args.end)) => InsideWindow
          /\ GetLastRunTime(before[LogSheet], args.route_name) # Absent
    /\ decision \in {"skip-day", "skip-window", "skip-interval"} => Skipped

\* C18's case: day and window passed, the last run was too recent, and the
\* call returned without a request, a row or a Run-State write
C18_Witness ==
    /\ pc = "done"
    /\ decision = "skip-interval"
    /\ args.days # {}
    /\ Truthy(args.start)
    /\ Truthy(args.end)
    /\ InsideWindow
    /\ Skipped

\* C19: when the store fails inside update_last_run_time, after all records
\* of the run were appended, no exception reaches the caller: the records
\* stay, the run-state table is as it was before the call, and
\* run_commute_tracker goes on to the next route.
C19_FailedCommitSwallowed ==
    [][(pc = "update" /\ caller = "main" /\ faults' > faults)
          => /\ Len(Appended) = Len(routes)
             /\ Len(routes) >= 1
             /\ sheets' = sheets
             /\ sheets'[LogSheet] = before[LogSheet]
             /\ committed' = committed
             /\ failure' = "none"
             /\ result' \notin {"500", "raised"}
             /\ pc' = "loop"
             /\ i' = i + 1]_vars

\* C19's case, one invocation later: the route's worksheet holds the two
\* records of an earlier run made in this very minute, no Run-State was ever
\* written for the route, and the route is being logged again
C19_Witness ==
    /\ caller = "main"
    /\ pc = "append"
    /\ sheets[LogSheet][1] = RunStateHeaders
    /\ committed[args.route_name] = Absent
    /\ Len(before[args.tab]) = 3
    /\ before[args.tab][2][1] = Strftime(now)
    /\ before[args.tab][3][1] = Strftime(now)

\* C20: a call of log_route_to_sheet for route A, however it ends, leaves
\* for every route B of another name the Run-State entry (the last run
\* get_last_run_time finds for B) and the records of B's worksheet as they
\* were when the call began.
C20_PerRouteFrame ==
    (InLog /\ decision # "none")
        => \A B \in RouteNames \ {args.route_name} :
              /\ GetLastRunTime(sheets[LogSheet], B)
                    = GetLastRunTime(before[LogSheet], B)
              /\ TabName(B) # args.tab => sheets[TabName(B)] = before[TabName(B)]

====
